---- MODULE Spec2Model ----
(***************************************************************************)
(* Travel Buddy RAG API (src/main.py): the vector store, the user profile  *)
(* store and the HTTP handlers that use them, together with the sample     *)
(* data script (src/setup_data.py).                                        *)
(*                                                                         *)
(* Strings that the code inspects character by character (file names,     *)
(* uploaded text, chunks, query words such as countries) are sequences of  *)
(* one-character strings.  Values the code only stores, compares and       *)
(* passes on (user ids, LLM replies) are plain strings.  Time is a         *)
(* counter: every datetime.now() reads it and advances it.  Similarity     *)
(* scores are fixed point numbers, in hundredths, rounded up.              *)
(*                                                                         *)
(* A handler is one action.  Two things are also followed step by step:    *)
(* the profile endpoints, one file access at a time, with two requests in  *)
(* flight (SpecRace), and an upload through the passes of its chunking     *)
(* loop (SpecChunk).                                                       *)
(***************************************************************************)
EXTENDS Integers, Sequences, FiniteSets, TLC

(***************************************************************************)
(* Bounds of the model.                                                    *)
(***************************************************************************)
MaxDocs == 3        \* chunks the in-memory store may hold
MaxClock == 5       \* datetime.now() calls in one behaviour
MaxHistory == 3     \* travel_history entries of one profile
MaxStore == 3       \* entries of a store drawn for the search specification
MaxTopK == 3        \* largest top_k passed to search
LongPad == 440      \* leading blanks of the long uploaded text
MaxWindows == 2     \* whole strides in the longest text that is chunked
MaxRequests == 3    \* requests the threads serve step by step

None == "None"      \* Python's None, for an optional plain string

\* an Optional[...] request field or argument: given, or left as None
Some(v) == [given |-> TRUE, value |-> v]
NoSeq == [given |-> FALSE, value |-> <<>>]
NoDict == [given |-> FALSE, value |-> {}]

(***************************************************************************)
(* Python string operations on character sequences.                        *)
(***************************************************************************)
Rep(n, c) == [i \in 1..n |-> c]

Whitespace == {" ", "\n", "\t"}

UpperToLower == [c \in {"A", "T", "X", "P", "D", "F"} |->
                   CASE c = "A" -> "a" [] c = "T" -> "t" [] c = "X" -> "x"
                     [] c = "P" -> "p" [] c = "D" -> "d" [] c = "F" -> "f"]

\* str.lower()
Lower(s) == [i \in 1..Len(s) |->
               IF s[i] \in DOMAIN UpperToLower THEN UpperToLower[s[i]] ELSE s[i]]

\* s[a:b] with 0 <= a, Python slice semantics (clamped to the string)
Slice(s, a, b) ==
  LET hi == IF b < Len(s) THEN b ELSE Len(s)
  IN  IF a >= hi THEN <<>> ELSE SubSeq(s, a + 1, hi)

\* str.strip()
Strip(s) ==
  IF \A i \in 1..Len(s) : s[i] \in Whitespace THEN <<>>
  ELSE LET lo == CHOOSE i \in 1..Len(s) :
                   /\ s[i] \notin Whitespace
                   /\ \A j \in 1..(i - 1) : s[j] \in Whitespace
           hi == CHOOSE i \in 1..Len(s) :
                   /\ s[i] \notin Whitespace
                   /\ \A j \in (i + 1)..Len(s) : s[j] \in Whitespace
       IN  SubSeq(s, lo, hi)

\* sub in s
Contains(s, sub) ==
  \E i \in 1..(Len(s) - Len(sub) + 1) : SubSeq(s, i, i + Len(sub) - 1) = sub

\* s.endswith(suffix)
EndsWith(s, suffix) ==
  /\ Len(s) >= Len(suffix)
  /\ SubSeq(s, Len(s) - Len(suffix) + 1, Len(s)) = suffix

(***************************************************************************)
(* upload_travel_data: text extraction, chunking, document type.           *)
(***************************************************************************)
chunk_size == 500
overlap == 50

\* mutant: the next window starts where this one ends
NextStartNoOverlap(end) == end

\* mutant: the overlap is added, not subtracted
NextStartSkipping(end) == end + overlap

\* start = end - overlap
NextStart(end) == end - overlap

\* one pass through the body of the while loop
ChunkStep(text, start, chunks) ==
  LET end == start + chunk_size
      chunk == Strip(Slice(text, start, end))
  IN  [start |-> NextStart(end),
       chunks |-> IF chunk # <<>> THEN Append(chunks, chunk) ELSE chunks]

RECURSIVE ChunkLoop(_, _, _)
\* the while loop: the chunks appended from offset start on
ChunkLoop(text, start, chunks) ==
  IF start < Len(text)
  THEN LET step == ChunkStep(text, start, chunks)
       IN  ChunkLoop(text, step.start, step.chunks)
  ELSE chunks

ChunkText(text) == ChunkLoop(text, 0, <<>>)

S_activity == <<"a", "c", "t", "i", "v", "i", "t", "y">>
S_destination == <<"d", "e", "s", "t", "i", "n", "a", "t", "i", "o", "n">>
S_things_to_do == <<"t", "h", "i", "n", "g", "s", " ", "t", "o", " ", "d", "o">>
S_country_guide ==
  <<"c", "o", "u", "n", "t", "r", "y", " ", "g", "u", "i", "d", "e">>
S_pdf == <<".", "p", "d", "f">>
S_txt == <<".", "t", "x", "t">>
S_unknown == <<"u", "n", "k", "n", "o", "w", "n">>

\* doc_type, from the file name or the first 500 characters of the text
DocType(filename, text) ==
  IF \/ Contains(Lower(filename), S_activity)
     \/ Contains(Slice(Lower(text), 0, 500), S_things_to_do)
  THEN "activity"
  ELSE IF \/ Contains(Lower(filename), S_destination)
          \/ Contains(Slice(Lower(text), 0, 500), S_country_guide)
       THEN "destination"
       ELSE "general"

RECURSIVE PdfText(_)
\* text += page.extract_text() + "\n" for every page
PdfText(pages) ==
  IF pages = <<>> THEN <<>>
  ELSE Head(pages) \o <<"\n">> \o PdfText(Tail(pages))

(***************************************************************************)
(* The embedding model and cosine similarity.  SentenceTransformer.encode  *)
(* is a fixed function from a text to a vector; here a vector of two       *)
(* integers computed from the characters of the text, never the zero       *)
(* vector.                                                                 *)
(***************************************************************************)
Count(s, c) == Cardinality({i \in 1..Len(s) : s[i] = c})

Encode(s) == <<(Count(s, "a") % 4) - 1, ((Count(s, " ") + Len(s)) % 3) + 1>>

Dot(u, v) == u[1] * v[1] + u[2] * v[2]

RECURSIVE RootUp(_, _, _, _)
\* the least r in lo..hi with r * r * n >= t (bisection)
RootUp(lo, hi, n, t) ==
  IF lo = hi THEN lo
  ELSE LET mid == (lo + hi) \div 2
       IN  IF mid * mid * n >= t THEN RootUp(lo, mid, n, t)
           ELSE RootUp(mid + 1, hi, n, t)

RECURSIVE RootDown(_, _, _, _)
\* the greatest r in lo..hi with r * r * n <= t (bisection)
RootDown(lo, hi, n, t) ==
  IF lo = hi THEN lo
  ELSE LET mid == (lo + hi + 1) \div 2
       IN  IF mid * mid * n <= t THEN RootDown(mid, hi, n, t)
           ELSE RootDown(lo, mid - 1, n, t)

\* cosine_similarity(q, e) = q.e / (|q| |e|), in hundredths, rounded up
Cos100(q, e) ==
  LET d == Dot(q, e)
      n == Dot(q, q) * Dot(e, e)
  IN  IF d >= 0 THEN RootUp(0, 100, n, 10000 * d * d)
      ELSE 0 - RootDown(0, 100, n, 10000 * d * d)

\* the 0.1 threshold of search, in hundredths
Threshold100 == 10

(***************************************************************************)
(* VectorStore.search                                                      *)
(***************************************************************************)
\* Python truthiness of the filter_type argument
Truthy(x) == x # None /\ x # ""

\* mutant: the type filter is dropped, every index is a candidate
FilteredIndicesUnfiltered(meta, n, filter_type) == [i \in 1..n |-> i]

\* [i for i, meta in enumerate(metadata) if meta.get("type") == filter_type],
\* or range(len(similarities)) when filter_type is not given; indices are
\* 1-based here
FilteredIndices(meta, n, filter_type) ==
  IF Truthy(filter_type)
  THEN SelectSeq([i \in 1..Len(meta) |-> i],
                 LAMBDA i : meta[i].type = filter_type)
  ELSE [i \in 1..n |-> i]

RECURSIVE InsertDesc(_, _, _)
\* idx put into the sorted list after every index whose score is >= its own
InsertDesc(sorted, idx, sims) ==
  IF sorted = <<>> THEN <<idx>>
  ELSE IF sims[Head(sorted)] >= sims[idx]
       THEN <<Head(sorted)>> \o InsertDesc(Tail(sorted), idx, sims)
       ELSE <<idx>> \o sorted

RECURSIVE SortDesc(_, _)
\* list.sort(key=score, reverse=True): stable, highest score first
SortDesc(indices, sims) ==
  IF indices = <<>> THEN <<>>
  ELSE InsertDesc(SortDesc(SubSeq(indices, 1, Len(indices) - 1), sims),
                  indices[Len(indices)], sims)

\* the list search returns when it does not raise
SearchResults(docs, embs, meta, query, top_k, filter_type) ==
  IF embs = <<>> THEN <<>>
  ELSE
    LET q == Encode(query)
        similarities == <<>> \o [i \in 1..Len(embs) |-> Cos100(q, embs[i])]
        ordered == SortDesc(FilteredIndices(meta, Len(similarities), filter_type),
                            similarities)
        top_indices == SubSeq(ordered, 1,
                              IF top_k < Len(ordered) THEN top_k ELSE Len(ordered))
        kept == SelectSeq(top_indices,
                          LAMBDA i : similarities[i] > Threshold100)
    IN  [k \in 1..Len(kept) |->
           [text |-> docs[kept[k]], score |-> similarities[kept[k]],
            metadata |-> meta[kept[k]]]]

\* mutant: the embedding model is checked before the empty-store return
SearchRaisesModelFirst(embs, model_loaded) == ~model_loaded

\* search raises "Embedding model not loaded" only past the empty-store return
SearchRaises(embs, model_loaded) == embs # <<>> /\ ~model_loaded

(***************************************************************************)
(* State.                                                                  *)
(***************************************************************************)
VARIABLES
  running,          \* the server process is up (main.py has been imported)
  embedding_model,  \* TRUE: loaded; FALSE: None (src/main.py:51-62)
  gemini_model,     \* TRUE: configured; FALSE: None (src/main.py:27-48)
  documents,        \* vector_store.documents
  embeddings,       \* vector_store.embeddings
  metadata,         \* vector_store.metadata
  storeFile,        \* storage/vector_store.json
  dataDir,          \* the names of the files in data/
  users,            \* storage/users/<user_id>.json: user_id -> profile
  now,              \* the clock read by datetime.now()
  resp,             \* the last HTTP response
  callLog,          \* the calls the last handler made, in order
  prompt,           \* the RAG part of the last prompt built
  searched,         \* the arguments and outcome of the last search call
  loadedAtStart,    \* history: chunks loaded from disk at the last start-up
  chunksAdded,      \* history: sum of chunks_added of the uploads since
  saveFailed,       \* history: a save_to_disk since start-up failed
  lastSave,         \* history: how save_to_disk ended in the last upload
  addLog,           \* history: user_id -> countries of the add calls so far
  putDone,          \* history: user ids whose profile a PUT has touched
  threads,          \* the worker threads: the profile request each is in
  chunker           \* an upload followed through its chunking loop

vars == <<running, embedding_model, gemini_model, documents, embeddings,
          metadata, storeFile, dataDir, users, now, resp, callLog, prompt,
          searched, loadedAtStart, chunksAdded, saveFailed, lastSave, addLog,
          putDone, threads, chunker>>

storeVars == <<documents, embeddings, metadata>>
historyVars ==
  <<loadedAtStart, chunksAdded, saveFailed, lastSave, addLog, putDone>>
handlerVars == <<callLog, prompt, searched>>

\* datetime.now().isoformat()
IsoFormat(t) == ToString(t)

(***************************************************************************)
(* VectorStore persistence.                                                *)
(***************************************************************************)
EmptyData == [documents |-> <<>>, embeddings |-> <<>>, metadata |-> <<>>]
MissingFile == [state |-> "missing", data |-> EmptyData]
CorruptFile == [state |-> "corrupt", data |-> EmptyData]

\* mutant: the metadata list is left out of the dump
SaveDataWithoutMetadata(docs, embs, meta) ==
  [documents |-> docs, embeddings |-> embs, metadata |-> <<>>]

\* the object save_to_disk dumps
SaveData(docs, embs, meta) ==
  [documents |-> docs, embeddings |-> embs, metadata |-> meta]

\* save_to_disk: the file afterwards.  outcome "ok": the dump is written;
\* "open_failed": open() raised, the file is as before; "write_failed": the
\* file was truncated by open(.., 'w') and the dump did not complete.  Every
\* exception is caught and printed.
SaveToDisk(file, docs, embs, meta, outcome) ==
  CASE outcome = "ok" -> [state |-> "json", data |-> SaveData(docs, embs, meta)]
    [] outcome = "open_failed" -> file
    [] outcome = "write_failed" -> CorruptFile

SaveOutcomes == {"ok", "open_failed", "write_failed"}

\* mutant: the exception of a failed write reaches the caller
SaveRaisesOnFailure(outcome) == outcome # "ok"

\* save_to_disk raises to its caller: never, its except clause catches every
\* exception of open() and json.dump() and prints it
SaveRaises(outcome) == FALSE

\* a store file that exists and that open() cannot read; data is its content
UnreadableFile(data) == [state |-> "unreadable", data |-> data]

\* a store file whose content json.load rejects: a dump that was cut short;
\* data is the part of the dump a lenient reader could still make out
TruncatedFile(data) == [state |-> "corrupt", data |-> data]

\* dict.get(key, default)
DictGet(d, key, default) == IF key \in DOMAIN d THEN d[key] ELSE default

\* mutant: what can be made out of a file json.load rejects is kept
LoadFromDiskSalvaging(file) ==
  IF file.state \in {"json", "corrupt"}
  THEN [documents |-> DictGet(file.data, "documents", <<>>),
        embeddings |-> DictGet(file.data, "embeddings", <<>>),
        metadata |-> DictGet(file.data, "metadata", <<>>)]
  ELSE EmptyData

\* load_from_disk on a store whose lists are empty: the three lists afterwards.
\* A missing file is skipped; an exception of open() or json.load() is caught
\* before any list is assigned.
LoadFromDisk(file) ==
  IF file.state = "json"
  THEN [documents |-> DictGet(file.data, "documents", <<>>),
        embeddings |-> DictGet(file.data, "embeddings", <<>>),
        metadata |-> DictGet(file.data, "metadata", <<>>)]
  ELSE EmptyData

(***************************************************************************)
(* UserProfileStore.                                                       *)
(***************************************************************************)
\* dict.update
DictUpdate(d, e) ==
  [k \in DOMAIN d \cup DOMAIN e |-> IF k \in DOMAIN e THEN e[k] ELSE d[k]]

EmptyDict == [k \in {} |-> 0]

NewProfile(user_id, t) ==
  [user_id |-> user_id, visited_countries |-> <<>>, preferences |-> {},
   travel_history |-> <<>>, created_at |-> IsoFormat(t)]

\* mutant: the existing file is not looked at, a new profile is written
GetOrCreateProfileAlwaysNew(us, user_id, t) ==
  LET profile == NewProfile(user_id, t)
  IN  [profile |-> profile,
       users |-> [u \in DOMAIN us \cup {user_id} |->
                    IF u = user_id THEN profile ELSE us[u]],
       now |-> t + 1]

\* get_or_create_profile: the profile returned, the files and the clock after
GetOrCreateProfile(us, user_id, t) ==
  IF user_id \in DOMAIN us
  THEN [profile |-> us[user_id], users |-> us, now |-> t]
  ELSE LET profile == NewProfile(user_id, t)
       IN  [profile |-> profile,
            users |-> [u \in DOMAIN us \cup {user_id} |->
                         IF u = user_id THEN profile ELSE us[u]],
            now |-> t + 1]

\* update_profile
UpdateProfile(us, user_id, updates, t) ==
  LET got == GetOrCreateProfile(us, user_id, t)
      profile == DictUpdate(DictUpdate(got.profile, updates),
                            [k \in {"updated_at"} |-> IsoFormat(got.now)])
  IN  [profile |-> profile,
       users |-> [got.users EXCEPT ![user_id] = profile],
       now |-> got.now + 1]

InSeq(x, s) == \E i \in 1..Len(s) : s[i] = x

\* mutant: the country is appended without the membership test
AddVisitedCountryAlwaysAppend(us, user_id, country, visit_date, t) ==
  LET got == GetOrCreateProfile(us, user_id, t)
      given == visit_date # None /\ visit_date # ""
      entry == [country |-> country,
                visit_date |-> IF given THEN visit_date ELSE IsoFormat(got.now)]
      profile == [got.profile EXCEPT
                    !.visited_countries = Append(@, country),
                    !.travel_history = Append(@, entry)]
  IN  UpdateProfile(got.users, user_id, profile,
                    IF given THEN got.now ELSE got.now + 1)

\* UserProfileStore.add_visited_country
AddVisitedCountry(us, user_id, country, visit_date, t) ==
  LET got == GetOrCreateProfile(us, user_id, t)
      visited == IF InSeq(country, got.profile.visited_countries)
                 THEN got.profile.visited_countries
                 ELSE Append(got.profile.visited_countries, country)
      given == visit_date # None /\ visit_date # ""
      entry == [country |-> country,
                visit_date |-> IF given THEN visit_date ELSE IsoFormat(got.now)]
      profile == [got.profile EXCEPT
                    !.visited_countries = visited,
                    !.travel_history = Append(@, entry)]
  IN  UpdateProfile(got.users, user_id, profile,
                    IF given THEN got.now ELSE got.now + 1)

(***************************************************************************)
(* Inputs: the requests and files the environment may send.                *)
(***************************************************************************)
S_q_activities ==
  <<"a", "c", "t", "i", "v", "i", "t", "i", "e", "s", " ", "t", "h", "i",
  "n", "g", "s", " ", "t", "o", " ", "d", "o", " ">>
S_q_destinations ==
  <<"t", "r", "a", "v", "e", "l", " ", "d", "e", "s", "t", "i", "n", "a",
  "t", "i", "o", "n", "s", " ", "s", "i", "m", "i", "l", "a", "r", " ", "t",
  "o", " ">>
F_japan ==
  <<"j", "a", "p", "a", "n", "-", "a", "c", "t", "i", "v", "i", "t", "i",
  "e", "s", ".", "t", "x", "t">>
F_europe ==
  <<"e", "u", "r", "o", "p", "e", "-", "d", "e", "s", "t", "i", "n", "a",
  "t", "i", "o", "n", "s", ".", "t", "x", "t">>
F_asia ==
  <<"s", "o", "u", "t", "h", "e", "a", "s", "t", "-", "a", "s", "i", "a",
  "-", "g", "u", "i", "d", "e", ".", "t", "x", "t">>
N_activity_txt ==
  <<"A", "c", "t", "i", "v", "i", "t", "y", ".", "T", "X", "T">>
N_notes_txt ==
  <<"n", "o", "t", "e", "s", ".", "t", "x", "t">>
N_trip_pdf ==
  <<"t", "r", "i", "p", ".", "P", "D", "F">>
N_notes_md ==
  <<"n", "o", "t", "e", "s", ".", "m", "d">>
T_guide ==
  <<"a", " ", "c", "o", "u", "n", "t", "r", "y", " ", "g", "u", "i", "d",
  "e">>
T_plain ==
  <<"a", "b">>
T_blank ==
  <<" ", "\n">>
\* a text longer than one window: blanks, then two words 20 blanks apart
T_long == Rep(LongPad, " ") \o <<"x">> \o Rep(20, " ") \o <<"y">>

\* SAMPLE_DOCUMENTS of setup_data.py: the file names
SampleDocuments == {F_japan, F_europe, F_asia}

UploadFile(filename, text, pages) ==
  [filename |-> filename, text |-> text, pages |-> pages]

\* the files a client may upload: name, content as text (.txt) or pages (.pdf)
UploadFiles ==
  << UploadFile(Some(N_activity_txt), T_plain, <<>>),
     UploadFile(Some(N_notes_txt), T_long, <<>>),
     UploadFile(Some(N_notes_txt), T_blank, <<>>),
     UploadFile(Some(N_trip_pdf), <<>>, <<T_plain, T_guide>>),
     UploadFile(Some(N_notes_md), T_plain, <<>>),
     UploadFile(NoSeq, T_plain, <<>>) >>

\* an upload request names its file by its place in UploadFiles
Uploads == DOMAIN UploadFiles

UserIds == {"u1", "u2"}
C_japan == <<"J", "P">>
C_france == <<"F", "R">>
Countries == {C_japan, C_france}
VisitDates == {None, "2024-05-01"}
Interests == {<<>>, << <<"a", "r", "t">> >>}
TravelStyles == {NoSeq, Some(<<"f", "o", "o", "d">>)}
LlmOutcomes == {"reply", "error"}
ProfileUpdates ==
  [visited_countries : {NoSeq, Some(<<>>), Some(<<C_france, C_france>>)},
   preferences : {NoDict, Some({<<"budget", "low">>})}]

RECURSIVE Join(_, _)
\* sep.join(parts)
Join(parts, sep) ==
  IF parts = <<>> THEN <<>>
  ELSE IF Len(parts) = 1 THEN parts[1]
       ELSE parts[1] \o sep \o Join(Tail(parts), sep)

(***************************************************************************)
(* Start-up and shutdown of the server process, and the sample-data script.*)
(***************************************************************************)
\* The profile endpoints are plain def functions: the server runs each request
\* on a thread of its pool, so two of them can be in flight at once.
Threads == {"t1", "t2"}

\* a thread that serves no request and has served none since start-up
IdleThread ==
  [pc |-> "idle", ep |-> "none", user_id |-> "none", country |-> <<>>,
   visit_date |-> None, updates |-> EmptyDict, phase |-> 0,
   profile |-> EmptyDict, base |-> EmptyDict, written |-> EmptyDict,
   overlapped |-> FALSE, status |-> 0, visited |-> <<>>, served |-> 0]

IdleThreads == [t \in Threads |-> IdleThread]

\* no upload is being followed
IdleChunker ==
  [pc |-> "idle", filename |-> <<>>, text |-> <<>>, start |-> 0,
   chunks |-> <<>>, iterations |-> 0]

NoResponse == [ep |-> "none", status |-> 0]
NoPrompt == [built |-> FALSE, rag_header |-> FALSE, rag_texts |-> <<>>]
NoSearch == [called |-> FALSE, raised |-> FALSE, results |-> <<>>,
             query |-> <<>>, top_k |-> 0, filter_type |-> None]

Init ==
  /\ running = FALSE
  /\ embedding_model = FALSE
  /\ gemini_model = FALSE
  /\ documents = <<>>
  /\ embeddings = <<>>
  /\ metadata = <<>>
  /\ storeFile = MissingFile
  /\ dataDir = {}
  /\ users = EmptyDict
  /\ now = 1
  /\ resp = NoResponse
  /\ callLog = <<>>
  /\ prompt = NoPrompt
  /\ searched = NoSearch
  /\ loadedAtStart = 0
  /\ chunksAdded = 0
  /\ saveFailed = FALSE
  /\ lastSave = "none"
  /\ addLog = [u \in UserIds |-> <<>>]
  /\ putDone = {}
  /\ threads = IdleThreads
  /\ chunker = IdleChunker

\* setup_data.py, create_sample_documents: writes the samples into data/
CreateSampleDocuments ==
  /\ dataDir' = dataDir \cup SampleDocuments
  /\ dataDir' # dataDir
  /\ UNCHANGED <<chunker, threads, running, embedding_model, gemini_model,
                 storeVars, storeFile,
                 users, now, resp, handlerVars, historyVars>>

\* the three lists of a VectorStore just constructed over the file
NewVectorStore(file) == LoadFromDisk(file)

\* python main.py: the import configures Gemini and the embedding model (either
\* may end up None), creates the directories and constructs vector_store
Startup ==
  /\ ~running
  /\ running' = TRUE
  /\ gemini_model' \in BOOLEAN
  /\ embedding_model' \in BOOLEAN
  /\ LET store == NewVectorStore(storeFile)
     IN  /\ documents' = store.documents
         /\ embeddings' = store.embeddings
         /\ metadata' = store.metadata
         /\ loadedAtStart' = Len(store.documents)
  /\ chunksAdded' = 0
  /\ saveFailed' = FALSE
  /\ lastSave' = "none"
  /\ resp' = NoResponse
  /\ callLog' = <<>>
  /\ prompt' = NoPrompt
  /\ searched' = NoSearch
  /\ threads' = IdleThreads
  /\ chunker' = IdleChunker
  /\ UNCHANGED <<storeFile, dataDir, users, now, addLog, putDone>>

\* the process ends: what was only in memory is gone
Shutdown ==
  /\ running
  /\ running' = FALSE
  /\ gemini_model' = FALSE
  /\ embedding_model' = FALSE
  /\ documents' = <<>>
  /\ embeddings' = <<>>
  /\ metadata' = <<>>
  /\ resp' = NoResponse
  /\ callLog' = <<>>
  /\ prompt' = NoPrompt
  /\ searched' = NoSearch
  /\ loadedAtStart' = 0
  /\ chunksAdded' = 0
  /\ saveFailed' = FALSE
  /\ lastSave' = "none"
  /\ threads' = IdleThreads
  /\ chunker' = IdleChunker
  /\ UNCHANGED <<storeFile, dataDir, users, now, addLog, putDone>>

(***************************************************************************)
(* VectorStore.add_documents and POST /api/upload-travel-data.             *)
(***************************************************************************)
\* mutant: the lists are assigned, not extended
AddDocumentsReplacing(docs, embs, meta, texts, metas) ==
  [documents |-> texts,
   embeddings |-> [i \in 1..Len(texts) |-> Encode(texts[i])],
   metadata |-> metas]

\* mutant: a text the store already holds is not added again
AddDocumentsSkippingKnown(docs, embs, meta, texts, metas) ==
  LET fresh == SelectSeq([i \in 1..Len(texts) |-> i],
                         LAMBDA i : \A k \in 1..Len(docs) : docs[k] # texts[i])
  IN  [documents |-> docs \o [j \in 1..Len(fresh) |-> texts[fresh[j]]],
       embeddings |-> embs \o [j \in 1..Len(fresh) |-> Encode(texts[fresh[j]])],
       metadata |-> meta \o [j \in 1..Len(fresh) |-> metas[fresh[j]]]]

\* add_documents past the embedding-model check: the three lists extended
AddDocuments(docs, embs, meta, texts, metas) ==
  [documents |-> docs \o texts,
   embeddings |-> embs \o [i \in 1..Len(texts) |-> Encode(texts[i])],
   metadata |-> meta \o metas]

\* filename = file.filename or "unknown"
FileName(file) ==
  IF file.filename.given /\ file.filename.value # <<>>
  THEN file.filename.value ELSE S_unknown

IsPdf(filename) == EndsWith(Lower(filename), S_pdf)
IsTxt(filename) == EndsWith(Lower(filename), S_txt)

\* the text extracted from a supported file
ExtractText(file) ==
  IF IsPdf(FileName(file)) THEN PdfText(file.pages) ELSE file.text

\* the metadata list of one upload, read at clock t
ChunkMetadata(filename, doc_type, n, t) ==
  [i \in 1..n |-> [source |-> filename, type |-> doc_type, chunk_id |-> i - 1,
                   uploaded_at |-> IsoFormat(t + i - 1)]]

\* what the handler computes from the file alone, before any clock is read
Ingest(file) ==
  LET filename == FileName(file)
      text == ExtractText(file)
  IN  [filename |-> filename,
       supported |-> IsPdf(filename) \/ IsTxt(filename),
       chunks |-> ChunkText(text),
       doc_type |-> DocType(filename, text)]

Ingested == [file \in Uploads |-> Ingest(UploadFiles[file])]

\* upload_travel_data once the text is extracted and chunked: the metadata,
\* add_documents and the response
StoreChunks(filename, supported, chunks, doc_type, outcome) ==
  LET meta == ChunkMetadata(filename, doc_type, Len(chunks), now)
      store == AddDocuments(documents, embeddings, metadata, chunks, meta)
  IN
  /\ IF ~supported
     THEN \* HTTPException(400) is caught by the handler's except Exception
          /\ resp' = [ep |-> "upload", status |-> 500,
                      detail |-> "Unsupported file type"]
          /\ lastSave' = "none"
          /\ UNCHANGED <<storeVars, storeFile, now, chunksAdded, saveFailed>>
     ELSE /\ now + Len(chunks) <= MaxClock
          /\ now' = now + Len(chunks)
          /\ IF ~embedding_model
             THEN /\ resp' = [ep |-> "upload", status |-> 500,
                              detail |-> "Embedding model not loaded"]
                  /\ lastSave' = "none"
                  /\ UNCHANGED <<storeVars, storeFile, chunksAdded, saveFailed>>
             ELSE /\ Len(store.documents) <= MaxDocs
                  /\ documents' = store.documents
                  /\ embeddings' = store.embeddings
                  /\ metadata' = store.metadata
                  /\ storeFile' = SaveToDisk(storeFile, store.documents,
                                             store.embeddings, store.metadata,
                                             outcome)
                  /\ saveFailed' = (saveFailed \/ outcome # "ok")
                  /\ lastSave' = outcome
                  /\ IF SaveRaises(outcome)
                     THEN \* add_documents raises after it extended the lists
                          /\ chunksAdded' = chunksAdded
                          /\ resp' = [ep |-> "upload", status |-> 500,
                                      detail |-> "save_to_disk"]
                     ELSE /\ chunksAdded' = chunksAdded + Len(chunks)
                          /\ resp' = [ep |-> "upload", status |-> 200,
                                      chunks_added |-> Len(chunks),
                                      type |-> doc_type]
  /\ UNCHANGED <<threads, running, embedding_model, gemini_model, dataDir,
                 users, handlerVars, loadedAtStart, addLog, putDone>>

\* POST /api/upload-travel-data
UploadTravelData(file, outcome) ==
  /\ running
  /\ StoreChunks(Ingested[file].filename, Ingested[file].supported,
                 Ingested[file].chunks, Ingested[file].doc_type, outcome)
  /\ UNCHANGED chunker

\* POST /api/upload-travel-data with a .txt file, up to the while loop
ReadUpload(filename, text) ==
  /\ running
  /\ chunker.pc = "idle"
  /\ IsTxt(filename)
  /\ chunker' = [IdleChunker EXCEPT !.pc = "loop", !.filename = filename,
                                    !.text = text]
  /\ UNCHANGED <<threads, running, embedding_model, gemini_model, storeVars,
                 storeFile, dataDir, users, now, resp, handlerVars,
                 historyVars>>

\* the while loop: its test holds, one pass through its body
Iterate ==
  LET step == ChunkStep(chunker.text, chunker.start, chunker.chunks)
  IN
  /\ running
  /\ chunker.pc = "loop"
  /\ chunker.start < Len(chunker.text)
  /\ chunker' = [chunker EXCEPT !.start = step.start,
                                !.chunks = step.chunks,
                                !.iterations = @ + 1]
  /\ UNCHANGED <<threads, running, embedding_model, gemini_model, storeVars,
                 storeFile, dataDir, users, now, resp, handlerVars,
                 historyVars>>

\* the while loop: its test fails; the rest of the handler
FinishUpload(outcome) ==
  /\ running
  /\ chunker.pc = "loop"
  /\ ~(chunker.start < Len(chunker.text))
  /\ StoreChunks(chunker.filename, TRUE, chunker.chunks,
                 DocType(chunker.filename, chunker.text), outcome)
  /\ chunker' = [chunker EXCEPT !.pc = "done"]

\* GET /api/health
HealthCheck ==
  /\ running
  /\ resp' = [ep |-> "health", status |-> 200,
              gemini_configured |-> gemini_model,
              embedding_model_loaded |-> embedding_model,
              documents_loaded |-> Len(documents)]
  /\ UNCHANGED <<chunker, threads, running, embedding_model, gemini_model,
                 storeVars, storeFile,
                 dataDir, users, now, handlerVars, historyVars>>

(***************************************************************************)
(* POST /api/activities and POST /api/recommend-countries.                 *)
(***************************************************************************)
TopK == 5

\* mutant: get_activities searches without a type filter
ActivitySearchUnfiltered(docs, embs, meta, query) ==
  SearchResults(docs, embs, meta, query, TopK, None)

\* the search call of get_activities
ActivitySearch(docs, embs, meta, query) ==
  SearchResults(docs, embs, meta, query, TopK, "activity")

\* the search call of recommend_countries
DestinationSearch(docs, embs, meta, query) ==
  SearchResults(docs, embs, meta, query, TopK, "destination")

\* rag_context: whether the "Relevant Travel Information" header is there, and
\* the texts joined under it
RagContext(relevant_docs) ==
  [built |-> TRUE,
   rag_header |-> relevant_docs # <<>>,
   rag_texts |-> [i \in 1..Len(relevant_docs) |-> relevant_docs[i].text]]

\* the handler from the search call on: the response, the calls made after
\* get_or_create_profile, the prompt and the search record
Answer(ep, query, relevant_docs, filter_type, llm) ==
  IF SearchRaises(embeddings, embedding_model)
  THEN [resp |-> [ep |-> ep, status |-> 500,
                  detail |-> "Embedding model not loaded"],
        calls |-> <<"search">>,
        prompt |-> NoPrompt,
        searched |-> [called |-> TRUE, raised |-> TRUE, results |-> <<>>,
                      query |-> query, top_k |-> TopK,
                      filter_type |-> filter_type]]
  ELSE [resp |-> IF ~gemini_model
                 THEN [ep |-> ep, status |-> 500,
                       detail |-> "Gemini model not configured"]
                 ELSE IF llm = "error"
                      THEN [ep |-> ep, status |-> 500, detail |-> "generate_content"]
                      ELSE [ep |-> ep, status |-> 200, response |-> llm,
                            sources |-> relevant_docs],
        calls |-> <<"search", "generate_gemini_response">>,
        prompt |-> RagContext(relevant_docs),
        searched |-> [called |-> TRUE, raised |-> FALSE,
                      results |-> relevant_docs, query |-> query,
                      top_k |-> TopK, filter_type |-> filter_type]]

GetActivities(user_id, country, interests, llm) ==
  LET got == GetOrCreateProfile(users, user_id, now)
      query == S_q_activities \o country \o <<" ">> \o Join(interests, <<" ">>)
  IN
  /\ running
  /\ got.now <= MaxClock
  /\ users' = got.users
  /\ now' = got.now
  /\ \E relevant_docs \in {ActivitySearch(documents, embeddings, metadata, query)} :
       LET out == Answer("activities", query, relevant_docs, "activity", llm)
       IN  /\ resp' = out.resp
           /\ callLog' = <<"get_or_create_profile">> \o out.calls
           /\ prompt' = out.prompt
           /\ searched' = out.searched
  /\ UNCHANGED <<chunker, threads, running, embedding_model, gemini_model,
                 storeVars, storeFile,
                 dataDir, historyVars>>

RecommendCountries(user_id, travel_style, llm) ==
  LET got == GetOrCreateProfile(users, user_id, now)
      visited == got.profile.visited_countries
      query == S_q_destinations \o Join(visited, <<" ">>) \o <<" ">>
                 \o travel_style.value
  IN
  /\ running
  /\ got.now <= MaxClock
  /\ users' = got.users
  /\ now' = got.now
  /\ \E relevant_docs \in {DestinationSearch(documents, embeddings, metadata, query)} :
       LET out == Answer("recommend-countries", query, relevant_docs,
                         "destination", llm)
       IN  /\ resp' = out.resp
           /\ callLog' = <<"get_or_create_profile">> \o out.calls
           /\ prompt' = out.prompt
           /\ searched' = out.searched
  /\ UNCHANGED <<chunker, threads, running, embedding_model, gemini_model,
                 storeVars, storeFile,
                 dataDir, historyVars>>

(***************************************************************************)
(* The profile endpoints.                                                  *)
(***************************************************************************)
\* GET /api/users/{user_id}
GetUserProfile(user_id) ==
  LET got == GetOrCreateProfile(users, user_id, now)
  IN
  /\ running
  /\ got.now <= MaxClock
  /\ users' = got.users
  /\ now' = got.now
  /\ resp' = [ep |-> "get-user", status |-> 200, user_id |-> user_id,
              profile |-> got.profile]
  /\ UNCHANGED <<chunker, threads, running, embedding_model, gemini_model,
                 storeVars, storeFile,
                 dataDir, handlerVars, historyVars>>

\* mutant: both fields are copied, given or not
UpdateDictAllFields(updates) ==
  [k \in {"visited_countries", "preferences"} |-> updates[k].value]

\* update_dict of update_user_profile: only the fields that are not None
UpdateDict(updates) ==
  [k \in {f \in {"visited_countries", "preferences"} : updates[f].given} |->
     updates[k].value]

\* PUT /api/users/{user_id}
UpdateUserProfile(user_id, updates) ==
  LET out == UpdateProfile(users, user_id, UpdateDict(updates), now)
  IN
  /\ running
  /\ out.now <= MaxClock
  /\ users' = out.users
  /\ now' = out.now
  /\ resp' = [ep |-> "put-user", status |-> 200, user_id |-> user_id,
              profile |-> out.profile, updates |-> updates]
  /\ putDone' = putDone \cup {user_id}
  /\ UNCHANGED <<chunker, threads, running, embedding_model, gemini_model,
                 storeVars, storeFile,
                 dataDir, handlerVars, loadedAtStart, chunksAdded, saveFailed,
                 lastSave,
                 addLog>>

\* POST /api/users/{user_id}/visited
AddVisited(user_id, country, visit_date) ==
  LET out == AddVisitedCountry(users, user_id, country, visit_date, now)
  IN
  /\ running
  /\ out.now <= MaxClock
  /\ Len(out.profile.travel_history) <= MaxHistory
  /\ users' = out.users
  /\ now' = out.now
  /\ resp' = [ep |-> "add-visited", status |-> 200, user_id |-> user_id,
              country |-> country,
              visited_countries |-> out.profile.visited_countries]
  /\ addLog' = [addLog EXCEPT ![user_id] = Append(@, country)]
  /\ UNCHANGED <<chunker, threads, running, embedding_model, gemini_model,
                 storeVars, storeFile,
                 dataDir, handlerVars, loadedAtStart, chunksAdded, saveFailed,
                 lastSave,
                 putDone>>

(***************************************************************************)
(* The profile endpoints, one file access at a time.  A request runs on a  *)
(* thread; between two of its accesses to storage/users/<user_id>.json     *)
(* another thread may run.  open(.., 'w') empties the file; the dump is    *)
(* written at offset 0 when the file is closed.  When another dump landed  *)
(* between a thread's open and its own dump, its dump overwrites only as   *)
(* many bytes as it is long: the file is then its content, or not JSON.    *)
(***************************************************************************)
EmptyFile == [content |-> "empty"]
GarbledFile == [content |-> "garbled"]

\* json.load(f) returns a profile
IsProfile(f) == "user_id" \in DOMAIN f

\* the profile files after user_id's file has become f
WriteFile(us, user_id, f) ==
  [u \in DOMAIN us \cup {user_id} |-> IF u = user_id THEN f ELSE us[u]]

\* add_visited_country: the profile after the in-memory changes
VisitedProfile(profile, country, visit_date, t) ==
  LET visited == IF InSeq(country, profile.visited_countries)
                 THEN profile.visited_countries
                 ELSE Append(profile.visited_countries, country)
      entry == [country |-> country,
                visit_date |-> IF Truthy(visit_date) THEN visit_date
                               ELSE IsoFormat(t)]
  IN  [profile EXCEPT !.visited_countries = visited,
                      !.travel_history = Append(@, entry)]

\* mutant: the stored profile is laid over the updates
MergedProfileStoredWins(stored, updates, t) ==
  DictUpdate(DictUpdate(updates, stored),
             [k \in {"updated_at"} |-> IsoFormat(t)])

\* update_profile: profile.update(updates) and the new updated_at
MergedProfile(stored, updates, t) ==
  DictUpdate(DictUpdate(stored, updates),
             [k \in {"updated_at"} |-> IsoFormat(t)])

\* a request on its first get_or_create_profile: the one in
\* add_visited_country (phase 1) or, for a PUT, the one in update_profile
FirstPhase(ep) == IF ep = "add-visited" THEN 1 ELSE 2

\* get_or_create_profile has returned profile p to thread record th at time t:
\* the thread up to its next file access, and the clock.  In phase 1 the
\* caller is add_visited_country, which changes p and calls update_profile;
\* in phase 2 it is update_profile, which merges and goes on to write.
AfterGet(th, p, t) ==
  IF th.phase = 1
  THEN [thread |-> [th EXCEPT !.pc = "get", !.phase = 2, !.base = p,
                              !.profile = p,
                              !.updates = VisitedProfile(p, th.country,
                                                         th.visit_date, t)],
        now |-> IF Truthy(th.visit_date) THEN t ELSE t + 1]
  ELSE [thread |-> [th EXCEPT !.pc = "open", !.profile = p,
                              !.written = MergedProfile(p, th.updates, t)],
        now |-> t + 1]

\* what the file may hold after thread record th has dumped content
DumpResults(th, content) ==
  IF th.overlapped THEN {content, GarbledFile} ELSE {content}

\* the threads after thread t's dump to user_id's file has landed: a thread
\* that has the same file open will write over this dump
OthersAfterDump(ths, t, user_id) ==
  [s \in Threads |->
     IF s # t /\ ths[s].user_id = user_id
            /\ ths[s].pc \in {"create_dump", "dump"}
     THEN [ths[s] EXCEPT !.overlapped = TRUE]
     ELSE ths[s]]

RECURSIVE Served(_, _)
\* the number of requests the threads in T have taken since start-up
Served(ths, T) ==
  IF T = {} THEN 0
  ELSE LET t == CHOOSE x \in T : TRUE
       IN  ths[t].served + Served(ths, T \ {t})

\* a thread takes POST /api/users/{user_id}/visited
BeginAddVisited(t, user_id, country, visit_date) ==
  /\ running
  /\ threads[t].pc \in {"idle", "done"}
  /\ Served(threads, Threads) < MaxRequests
  /\ threads' = [threads EXCEPT ![t] =
                   [IdleThread EXCEPT !.pc = "get", !.ep = "add-visited",
                                      !.served = threads[t].served + 1,
                                      !.user_id = user_id,
                                      !.country = country,
                                      !.visit_date = visit_date,
                                      !.phase = 1]]
  /\ UNCHANGED <<chunker, running, embedding_model, gemini_model, storeVars,
                 storeFile,
                 dataDir, users, now, resp, handlerVars, historyVars>>

\* a thread takes PUT /api/users/{user_id}
BeginUpdate(t, user_id, updates) ==
  /\ running
  /\ threads[t].pc \in {"idle", "done"}
  /\ Served(threads, Threads) < MaxRequests
  /\ threads' = [threads EXCEPT ![t] =
                   [IdleThread EXCEPT !.pc = "get", !.ep = "put-user",
                                      !.served = threads[t].served + 1,
                                      !.user_id = user_id,
                                      !.updates = UpdateDict(updates),
                                      !.phase = 2]]
  /\ UNCHANGED <<chunker, running, embedding_model, gemini_model, storeVars,
                 storeFile,
                 dataDir, users, now, resp, handlerVars, historyVars>>

\* get_or_create_profile up to its first file access: os.path.exists, then
\* either the whole read or the making of a new profile.  A file json.load
\* rejects makes it return None, and the endpoint answers 500.
GetStep(t) ==
  LET th == threads[t]
      u == th.user_id
  IN
  /\ running
  /\ th.pc = "get"
  /\ IF u \notin DOMAIN users
     THEN /\ now + 1 <= MaxClock
          /\ now' = now + 1
          /\ threads' = [threads EXCEPT ![t] =
                           [th EXCEPT !.pc = "create_open",
                                      !.profile = NewProfile(u, now)]]
     ELSE IF IsProfile(users[u])
     THEN LET out == AfterGet(th, users[u], now)
          IN  /\ out.now <= MaxClock
              /\ th.phase = 1 =>
                   Len(out.thread.updates.travel_history) <= MaxHistory
              /\ now' = out.now
              /\ threads' = [threads EXCEPT ![t] = out.thread]
     ELSE /\ now' = now
          /\ threads' = [threads EXCEPT ![t] =
                           [th EXCEPT !.pc = "done", !.status = 500]]
  /\ UNCHANGED <<chunker, running, embedding_model, gemini_model, storeVars,
                 storeFile,
                 dataDir, users, resp, handlerVars, historyVars>>

\* get_or_create_profile, open(profile_file, 'w') for the new profile
CreateOpen(t) ==
  LET th == threads[t]
  IN
  /\ running
  /\ th.pc = "create_open"
  /\ users' = WriteFile(users, th.user_id, EmptyFile)
  /\ threads' = [threads EXCEPT ![t] =
                   [th EXCEPT !.pc = "create_dump", !.overlapped = FALSE]]
  /\ UNCHANGED <<chunker, running, embedding_model, gemini_model, storeVars,
                 storeFile,
                 dataDir, now, resp, handlerVars, historyVars>>

\* get_or_create_profile, json.dump of the new profile, and its return
CreateDump(t) ==
  LET th == threads[t]
      out == AfterGet(th, th.profile, now)
  IN
  /\ running
  /\ th.pc = "create_dump"
  /\ out.now <= MaxClock
  /\ \E f \in DumpResults(th, th.profile) :
       users' = WriteFile(users, th.user_id, f)
  /\ now' = out.now
  /\ threads' = [OthersAfterDump(threads, t, th.user_id) EXCEPT
                   ![t] = out.thread]
  /\ UNCHANGED <<chunker, running, embedding_model, gemini_model, storeVars,
                 storeFile,
                 dataDir, resp, handlerVars, historyVars>>

\* update_profile, open(profile_file, 'w')
OpenStep(t) ==
  LET th == threads[t]
  IN
  /\ running
  /\ th.pc = "open"
  /\ users' = WriteFile(users, th.user_id, EmptyFile)
  /\ threads' = [threads EXCEPT ![t] =
                   [th EXCEPT !.pc = "dump", !.overlapped = FALSE]]
  /\ UNCHANGED <<chunker, running, embedding_model, gemini_model, storeVars,
                 storeFile,
                 dataDir, now, resp, handlerVars, historyVars>>

\* update_profile, json.dump; the endpoint answers 200 with the profile
\* update_profile returned
DumpStep(t) ==
  LET th == threads[t]
  IN
  /\ running
  /\ th.pc = "dump"
  /\ \E f \in DumpResults(th, th.written) :
       users' = WriteFile(users, th.user_id, f)
  /\ threads' = [OthersAfterDump(threads, t, th.user_id) EXCEPT
                   ![t] = [th EXCEPT !.pc = "done", !.status = 200,
                                     !.visited =
                                       th.written.visited_countries]]
  /\ UNCHANGED <<chunker, running, embedding_model, gemini_model, storeVars,
                 storeFile,
                 dataDir, now, resp, handlerVars, historyVars>>

(***************************************************************************)
(* The service.  Next is every operation; the vector store with the        *)
(* process around it, the two retrieval endpoints and the profile          *)
(* endpoints are also specified on their own, each a part of Next: the     *)
(* profile files and the vector store do not touch each other.             *)
(***************************************************************************)
Upload == \E file \in Uploads, outcome \in SaveOutcomes : UploadTravelData(file, outcome)

UploadSaved == \E file \in Uploads : UploadTravelData(file, "ok")

Activities ==
  \E u \in UserIds, c \in Countries, i \in Interests, llm \in LlmOutcomes :
    GetActivities(u, c, i, llm)

Recommend ==
  \E u \in UserIds, ts \in TravelStyles, llm \in LlmOutcomes :
    RecommendCountries(u, ts, llm)

GetUser == \E u \in UserIds : GetUserProfile(u)

PutUser == \E u \in UserIds, up \in ProfileUpdates : UpdateUserProfile(u, up)

PostVisited ==
  \E u \in UserIds, c \in Countries, d \in VisitDates : AddVisited(u, c, d)

Next ==
  \/ CreateSampleDocuments
  \/ Startup
  \/ Shutdown
  \/ Upload
  \/ HealthCheck
  \/ Activities
  \/ Recommend
  \/ GetUser
  \/ PutUser
  \/ PostVisited

Spec == Init /\ [][Next]_vars

\* the vector store, its file and the process
NextStore ==
  \/ CreateSampleDocuments
  \/ Startup
  \/ Shutdown
  \/ Upload
  \/ HealthCheck

SpecStore == Init /\ [][NextStore]_vars

\* retrieval: uploads that reach the disk, and the two endpoints that search
NextRag ==
  \/ Startup
  \/ UploadSaved
  \/ Activities
  \/ Recommend

SpecRag == Init /\ [][NextRag]_vars

\* the profile endpoints
NextUsers ==
  \/ Startup
  \/ Shutdown
  \/ GetUser
  \/ PutUser
  \/ PostVisited

SpecUsers == Init /\ [][NextUsers]_vars

\* the profile endpoints with two requests in flight, both for one user
RaceUsers == {"u1"}
RaceUpdates ==
  {up \in ProfileUpdates :
     \/ up.visited_countries = Some(<<>>) /\ up.preferences = NoDict
     \/ up.visited_countries = NoSeq /\ up.preferences # NoDict}

BeginPost ==
  \E t \in Threads, u \in RaceUsers, c \in Countries, d \in VisitDates :
    BeginAddVisited(t, u, c, d)

BeginPut ==
  \E t \in Threads, u \in RaceUsers, up \in RaceUpdates :
    BeginUpdate(t, u, up)

Get == \E t \in Threads : GetStep(t)

Create == \E t \in Threads : CreateOpen(t)

Created == \E t \in Threads : CreateDump(t)

Open == \E t \in Threads : OpenStep(t)

Dump == \E t \in Threads : DumpStep(t)

\* the server just started on a fresh installation, both models loaded
InitRace ==
  /\ running = TRUE
  /\ embedding_model = TRUE
  /\ gemini_model = TRUE
  /\ documents = <<>>
  /\ embeddings = <<>>
  /\ metadata = <<>>
  /\ storeFile = MissingFile
  /\ dataDir = {}
  /\ users = EmptyDict
  /\ now = 1
  /\ resp = NoResponse
  /\ callLog = <<>>
  /\ prompt = NoPrompt
  /\ searched = NoSearch
  /\ loadedAtStart = 0
  /\ chunksAdded = 0
  /\ saveFailed = FALSE
  /\ lastSave = "none"
  /\ addLog = [u \in UserIds |-> <<>>]
  /\ putDone = {}
  /\ threads = IdleThreads
  /\ chunker = IdleChunker

NextRace ==
  \/ BeginPost
  \/ BeginPut
  \/ Get
  \/ Create
  \/ Created
  \/ Open
  \/ Dump

SpecRace == InitRace /\ [][NextRace]_vars

(***************************************************************************)
(* One upload followed through its chunking loop.  The texts have their    *)
(* lengths and their non-blank characters at and around the multiples of   *)
(* the stride and the ends of the windows.  A non-blank character is       *)
(* written as its offset in the text, which tells the characters apart.    *)
(***************************************************************************)
Stride == chunk_size - overlap

\* offsets at and around the window edges
EdgeOffsets ==
  {k * Stride + d : k \in 0..MaxWindows,
                    d \in {0, overlap - 1, overlap, Stride - 1}}

\* the text of the given length that is blank except at the offsets in marks
MarkedText(length, marks) ==
  [i \in 1..length |-> IF (i - 1) \in marks THEN ToString(i - 1) ELSE " "]

\* no blank, all blank, or blank but for one or two characters
ChunkTexts ==
  {MarkedText(n, 0..(n - 1)) : n \in EdgeOffsets}
    \cup
  UNION {{MarkedText(n, {p, q}) : p, q \in {e \in EdgeOffsets : e < n}} :
           n \in EdgeOffsets}
    \cup
  {MarkedText(n, {}) : n \in EdgeOffsets}

\* the server just started on a fresh installation
InitChunk ==
  /\ running = TRUE
  /\ embedding_model \in BOOLEAN
  /\ gemini_model = TRUE
  /\ documents = <<>>
  /\ embeddings = <<>>
  /\ metadata = <<>>
  /\ storeFile = MissingFile
  /\ dataDir = {}
  /\ users = EmptyDict
  /\ now = 1
  /\ resp = NoResponse
  /\ callLog = <<>>
  /\ prompt = NoPrompt
  /\ searched = NoSearch
  /\ loadedAtStart = 0
  /\ chunksAdded = 0
  /\ saveFailed = FALSE
  /\ lastSave = "none"
  /\ addLog = [u \in UserIds |-> <<>>]
  /\ putDone = {}
  /\ threads = IdleThreads
  /\ chunker = IdleChunker

Read == \E text \in ChunkTexts : ReadUpload(N_notes_txt, text)

Finish == \E outcome \in SaveOutcomes : FinishUpload(outcome)

\* One upload per behaviour: the loop does not look at the store.
NextChunk ==
  \/ Read
  \/ Iterate
  \/ Finish

SpecChunk == InitChunk /\ [][NextChunk]_vars

(***************************************************************************)
(* VectorStore.search on its own: a store of any contents, and a caller    *)
(* that passes any query, top_k and filter_type.  The embedding model is a *)
(* black box, so the stored vector of a text may be any vector; the texts  *)
(* of a drawn store are distinct, which tells its entries apart.           *)
(***************************************************************************)
SearchVectors == {<<2, 3>>, <<-4, 3>>, <<2, -1>>, <<-3, 2>>}
SearchTypes == {"activity", "general"}
SearchTexts == << <<"d", "1">>, <<"d", "2">>, <<"d", "3">>, <<"d", "4">>,
                  <<"d", "5">> >>
SearchQueries == { <<"a", "a", "a", " ">>, <<"b">> }
SearchFilters == {None, "", "activity"}

SearchMeta(type, i) ==
  [source |-> N_notes_txt, type |-> type, chunk_id |-> i - 1,
   uploaded_at |-> IsoFormat(0)]

InitSearch ==
  /\ running = TRUE
  /\ embedding_model \in BOOLEAN
  /\ gemini_model = FALSE
  /\ \E n \in 0..MaxStore :
       /\ documents = SubSeq(SearchTexts, 1, n)
       /\ embeddings \in [1..n -> SearchVectors]
       /\ \E types \in [1..n -> SearchTypes] :
            metadata = [i \in 1..n |-> SearchMeta(types[i], i)]
  /\ storeFile = MissingFile
  /\ dataDir = {}
  /\ users = EmptyDict
  /\ now = 1
  /\ resp = NoResponse
  /\ callLog = <<>>
  /\ prompt = NoPrompt
  /\ searched = NoSearch
  /\ loadedAtStart = 0
  /\ chunksAdded = 0
  /\ saveFailed = FALSE
  /\ lastSave = "none"
  /\ addLog = [u \in UserIds |-> <<>>]
  /\ putDone = {}
  /\ threads = IdleThreads
  /\ chunker = IdleChunker

\* vector_store.search(query, top_k, filter_type)
Search(query, top_k, filter_type) ==
  /\ running
  /\ searched' =
       IF SearchRaises(embeddings, embedding_model)
       THEN [called |-> TRUE, raised |-> TRUE, results |-> <<>>,
             query |-> query, top_k |-> top_k, filter_type |-> filter_type]
       ELSE [called |-> TRUE, raised |-> FALSE,
             results |-> SearchResults(documents, embeddings, metadata,
                                       query, top_k, filter_type),
             query |-> query, top_k |-> top_k, filter_type |-> filter_type]
  /\ UNCHANGED <<chunker, threads, running, embedding_model, gemini_model,
                 storeVars, storeFile,
                 dataDir, users, now, resp, callLog, prompt, historyVars>>

\* One call per drawn store: search leaves the store as it is, so a second
\* call is a first call on the same store.
NextSearch ==
  /\ ~searched.called
  /\ \E query \in SearchQueries, top_k \in 0..MaxTopK,
        filter_type \in SearchFilters :
       Search(query, top_k, filter_type)

SpecSearch == InitSearch /\ [][NextSearch]_vars

(***************************************************************************)
(* Start-up over a store file of any kind: absent, unreadable, cut short,  *)
(* or a complete dump of any store.                                        *)
(***************************************************************************)
FileStates == {"missing", "unreadable", "corrupt", "json"}

InitLoad ==
  /\ running = FALSE
  /\ embedding_model = FALSE
  /\ gemini_model = FALSE
  /\ documents = <<>>
  /\ embeddings = <<>>
  /\ metadata = <<>>
  /\ \E n \in 0..MaxStore, state \in FileStates :
       \E embs \in [1..n -> SearchVectors], types \in [1..n -> SearchTypes] :
         LET data == SaveData(SubSeq(SearchTexts, 1, n), embs,
                              [i \in 1..n |-> SearchMeta(types[i], i)])
         IN  storeFile =
               CASE state = "missing" -> MissingFile
                 [] state = "unreadable" -> UnreadableFile(data)
                 [] state = "corrupt" -> TruncatedFile(data)
                 [] state = "json" ->
                      SaveToDisk(MissingFile, data.documents, data.embeddings,
                                 data.metadata, "ok")
  /\ dataDir = {}
  /\ users = EmptyDict
  /\ now = 1
  /\ resp = NoResponse
  /\ callLog = <<>>
  /\ prompt = NoPrompt
  /\ searched = NoSearch
  /\ loadedAtStart = 0
  /\ chunksAdded = 0
  /\ saveFailed = FALSE
  /\ lastSave = "none"
  /\ addLog = [u \in UserIds |-> <<>>]
  /\ putDone = {}
  /\ threads = IdleThreads
  /\ chunker = IdleChunker

NextLoad ==
  \/ Startup
  \/ Shutdown

SpecLoad == InitLoad /\ [][NextLoad]_vars

(***************************************************************************)
(* Properties.                                                             *)
(***************************************************************************)
Min(a, b) == IF a < b THEN a ELSE b

\* the similarity of every stored entry to the query of the last search
SimsOfLastSearch ==
  [i \in 1..Len(embeddings) |-> Cos100(Encode(searched.query), embeddings[i])]

\* the entries the last search may return: of the type asked for, when one is
\* given (not None and not empty), and scoring above the threshold
EligibleForLastSearch ==
  {i \in 1..Len(embeddings) :
     /\ (searched.filter_type \notin {None, ""}
           => metadata[i].type = searched.filter_type)
     /\ SimsOfLastSearch[i] > Threshold100}

\* the entries the last search returned, told apart by their text
PickedByLastSearch ==
  {i \in 1..Len(documents) :
     \E j \in 1..Len(searched.results) : searched.results[j].text = documents[i]}

\* C1: search returns at most top_k results, by non-increasing score, each
\* scoring above 0.1; with a filter_type given every result has that type; and
\* the results are exactly the top_k highest-scoring entries (of that type)
\* above the threshold.  A filter_type of "" counts as not given, as None does.
C1_SearchContract ==
  (searched.called /\ ~searched.raised) =>
    LET R == searched.results
    IN  /\ Len(R) <= searched.top_k
        /\ \A i, j \in 1..Len(R) : i < j => R[i].score >= R[j].score
        /\ \A j \in 1..Len(R) : R[j].score > Threshold100
        /\ searched.filter_type \notin {None, ""} =>
             \A j \in 1..Len(R) : R[j].metadata.type = searched.filter_type
        /\ Len(R) = Min(searched.top_k, Cardinality(EligibleForLastSearch))
        /\ Cardinality(PickedByLastSearch) = Len(R)
        /\ PickedByLastSearch \subseteq EligibleForLastSearch
        /\ \A i \in PickedByLastSearch :
             \A e \in EligibleForLastSearch \ PickedByLastSearch :
               SimsOfLastSearch[i] >= SimsOfLastSearch[e]
        /\ \A j \in 1..Len(R) : \E i \in PickedByLastSearch :
             R[j] = [text |-> documents[i], score |-> SimsOfLastSearch[i],
                     metadata |-> metadata[i]]

\* a filtered search cut off by top_k, with an entry of another type scoring
\* at least as high as the one returned
C1_Witness ==
  /\ searched.called /\ ~searched.raised
  /\ searched.filter_type = "activity"
  /\ searched.top_k = 1
  /\ Len(searched.results) = 1
  /\ Cardinality(EligibleForLastSearch) > 1
  /\ \E i \in 1..Len(metadata) :
       /\ metadata[i].type = "general"
       /\ SimsOfLastSearch[i] >= searched.results[1].score

IsPrefix(s, t) == Len(s) <= Len(t) /\ SubSeq(t, 1, Len(s)) = s

\* C2: as long as every save since start-up was written, a VectorStore
\* constructed over the store file holds the documents, embeddings and
\* metadata of the in-memory store, element for element.
C2_RoundTrip ==
  (running /\ ~saveFailed) =>
    NewVectorStore(storeFile) =
      [documents |-> documents, embeddings |-> embeddings, metadata |-> metadata]

\* a store that was loaded from the file at start-up and added to since
C2_Witness ==
  /\ running /\ ~saveFailed
  /\ loadedAtStart >= 1
  /\ chunksAdded >= 1
  /\ Len(metadata) = loadedAtStart + chunksAdded

\* C3: no operation of the running service removes, replaces or reorders an
\* entry: the three lists before a step are prefixes of the lists after it.
C3_AppendOnly ==
  [][(running /\ running') =>
       /\ IsPrefix(documents, documents')
       /\ IsPrefix(embeddings, embeddings')
       /\ IsPrefix(metadata, metadata')]_vars

\* an upload that added chunks to a store that already held some
C3_Witness ==
  /\ resp.ep = "upload" /\ resp.status = 200
  /\ resp.chunks_added >= 1
  /\ Len(documents) > resp.chunks_added

\* C4: once start-up has completed, the vector store holds chunks of every
\* file present in the data folder.
C4_DataFolderLoaded ==
  [][(~running /\ running') =>
       \A f \in dataDir' : \E i \in 1..Len(metadata') : metadata'[i].source = f]_vars

\* C6: documents_loaded of the health endpoint is the number of chunks in the
\* store: those loaded at start-up plus the chunks_added of every successful
\* upload since.
C6_HealthCount ==
  /\ running => Len(documents) = loadedAtStart + chunksAdded
  /\ resp.ep = "health" => resp.documents_loaded = loadedAtStart + chunksAdded

\* a health check after a restart over a stored file and a further upload
C6_Witness ==
  /\ resp.ep = "health"
  /\ loadedAtStart >= 1
  /\ chunksAdded >= 1
  /\ resp.documents_loaded >= 2

RagEndpoints == {"activities", "recommend-countries"}

\* C5: the search comes before the LLM call, the sources returned are the
\* snippets put into the prompt, and they are stored chunks of type
\* "activity" (activities) or "destination" (recommend-countries) only.
C5_SourcesArePromptSnippets ==
  (resp.ep \in RagEndpoints /\ resp.status = 200) =>
    LET want == IF resp.ep = "activities" THEN "activity" ELSE "destination"
    IN  /\ prompt.built
        /\ prompt.rag_texts =
             [i \in 1..Len(resp.sources) |-> resp.sources[i].text]
        /\ \A i \in 1..Len(resp.sources) :
             /\ resp.sources[i].metadata.type = want
             /\ resp.sources[i].metadata.type # "general"
             /\ \E k \in 1..Len(documents) :
                  /\ documents[k] = resp.sources[i].text
                  /\ metadata[k] = resp.sources[i].metadata
        /\ \E i, j \in 1..Len(callLog) :
             /\ i < j
             /\ callLog[i] = "search"
             /\ callLog[j] = "generate_gemini_response"

\* an activities answer with sources, from a store that also holds a chunk of
\* type "general" scoring above the threshold for the query
C5_Witness ==
  /\ resp.ep = "activities" /\ resp.status = 200
  /\ resp.sources # <<>>
  /\ \E k \in 1..Len(metadata) :
       /\ metadata[k].type = "general"
       /\ SimsOfLastSearch[k] > Threshold100

\* C7: with an empty store the handler's search returns an empty list and
\* does not raise, whether or not the embedding model is loaded; the prompt
\* has no "Relevant Travel Information" section; generate_gemini_response is
\* called; the response carries no sources, and the only errors are the LLM's.
C7_EmptyStoreAnswers ==
  (resp.ep \in RagEndpoints /\ embeddings = <<>>) =>
    /\ searched.called /\ ~searched.raised /\ searched.results = <<>>
    /\ prompt.built /\ ~prompt.rag_header /\ prompt.rag_texts = <<>>
    /\ InSeq("generate_gemini_response", callLog)
    /\ resp.status = 200 => resp.sources = <<>>
    /\ resp.status # 200 =>
         resp.detail \in {"Gemini model not configured", "generate_content"}
    /\ gemini_model =>
         (resp.status = 200 \/ resp.detail = "generate_content")

\* an answer from an empty store with the embedding model not loaded
C7_Witness ==
  /\ resp.ep = "activities" /\ resp.status = 200
  /\ embeddings = <<>> /\ documents = <<>>
  /\ ~embedding_model

RECURSIVE Dedup(_)
\* the elements of s, each once, in order of first occurrence
Dedup(s) ==
  IF s = <<>> THEN <<>>
  ELSE LET front == Dedup(SubSeq(s, 1, Len(s) - 1))
           last == s[Len(s)]
       IN  IF \E i \in 1..Len(front) : front[i] = last THEN front
           ELSE Append(front, last)

\* C8: on a profile only add_visited_country has written to, visited_countries
\* holds each added country once, in order of first addition, travel_history
\* holds one entry per call in call order, and each call returns the stored
\* visited_countries.
C8_VisitedAndHistory ==
  /\ \A u \in DOMAIN users :
       u \notin putDone =>
         /\ users[u].visited_countries = Dedup(addLog[u])
         /\ [i \in 1..Len(users[u].travel_history) |->
               users[u].travel_history[i].country] = addLog[u]
  /\ resp.ep = "add-visited" =>
       resp.visited_countries = users[resp.user_id].visited_countries

\* a country added, another added, the first added again
C8_Witness ==
  \E u \in DOMAIN users :
    /\ u \notin putDone
    /\ addLog[u] = <<C_japan, C_france, C_japan>>
    /\ users[u].visited_countries = <<C_japan, C_france>>
    /\ resp.ep = "add-visited"

\* C9: GET /api/users/{user_id} on an unknown user creates and stores a
\* profile with empty visited_countries, preferences and travel_history and
\* returns it; on a known user it returns the stored profile (created_at
\* included) and leaves every profile file as it is.
C9_GetOrCreateIdempotent ==
  [][resp'.ep = "get-user" =>
       LET u == resp'.user_id
       IN  IF u \in DOMAIN users
           THEN /\ users' = users
                /\ resp'.profile = users[u]
                /\ now' = now
           ELSE /\ DOMAIN users' = DOMAIN users \cup {u}
                /\ \A v \in DOMAIN users : users'[v] = users[v]
                /\ users'[u] = resp'.profile
                /\ resp'.status = 200
                /\ resp'.profile.user_id = u
                /\ resp'.profile.visited_countries = <<>>
                /\ resp'.profile.preferences = {}
                /\ resp'.profile.travel_history = <<>>
                /\ resp'.profile.created_at = IsoFormat(now)]_vars

\* a GET that returned a profile written to since its creation
C9_Witness ==
  /\ resp.ep = "get-user"
  /\ resp.profile.travel_history # <<>>
  /\ resp.profile.created_at # IsoFormat(now - 1)
  /\ resp.profile = users[resp.user_id]

\* the profile a PUT starts from: the stored one, or the one it creates
PutBase(u) == IF u \in DOMAIN users THEN users[u] ELSE NewProfile(u, now)

\* C10: PUT /api/users/{user_id} sets the fields supplied and updated_at;
\* every other field, user_id, created_at and travel_history among them,
\* keeps its value, and no other profile changes.
C10_PutChangesOnlySupplied ==
  [][resp'.ep = "put-user" =>
       LET u == resp'.user_id
           up == resp'.updates
           base == PutBase(u)
           after == users'[u]
       IN  /\ DOMAIN after = DOMAIN base \cup {"updated_at"}
           /\ \A k \in DOMAIN after :
                IF k = "updated_at" THEN after[k] = IsoFormat(now' - 1)
                ELSE IF k \in {"visited_countries", "preferences"} /\ up[k].given
                     THEN after[k] = up[k].value
                     ELSE after[k] = base[k]
           /\ resp'.profile = after
           /\ \A v \in DOMAIN users \ {u} : users'[v] = users[v]]_vars

\* a PUT that supplied preferences only, on a profile with visited countries
\* and history
C10_Witness ==
  /\ resp.ep = "put-user"
  /\ ~resp.updates.visited_countries.given
  /\ resp.updates.preferences.given
  /\ resp.profile.visited_countries # <<>>
  /\ resp.profile.travel_history # <<>>
  /\ resp.profile.preferences # {}

AddSucceeded(th) ==
  th.pc = "done" /\ th.status = 200 /\ th.ep = "add-visited"

\* C12: when two add_visited_country requests for one user, for different
\* countries, have both answered 200, and the stored profile is the one written
\* by the request that had read the profile before the other's country was in
\* it, the other request's answer lists its country and the stored profile has
\* neither that country nor a travel_history entry for it: the other update
\* is lost.
C12_LostUpdate ==
  \A t \in Threads, s \in Threads :
    LET w == threads[t]
        o == threads[s]
    IN  ( /\ t # s
          /\ AddSucceeded(w) /\ AddSucceeded(o)
          /\ w.user_id = o.user_id
          /\ w.country # o.country
          /\ ~InSeq(o.country, w.base.visited_countries)
          /\ \A i \in 1..Len(w.base.travel_history) :
               w.base.travel_history[i].country # o.country
          /\ IsProfile(users[w.user_id])
          /\ users[w.user_id] = w.written )
        => /\ InSeq(o.country, o.visited)
           /\ InSeq(w.country, users[w.user_id].visited_countries)
           /\ ~InSeq(o.country, users[w.user_id].visited_countries)
           /\ \A i \in 1..Len(users[w.user_id].travel_history) :
                users[w.user_id].travel_history[i].country # o.country
           /\ Len(users[w.user_id].travel_history) =
                Len(w.base.travel_history) + 1

\* both requests have answered 200, one for each country, on a profile that
\* had no country, and the stored profile has one country and one entry
C12_Witness ==
  /\ \A t \in Threads : AddSucceeded(threads[t]) /\ threads[t].user_id = "u1"
  /\ threads["t1"].country = C_japan
  /\ threads["t2"].country = C_france
  /\ threads["t1"].visited = <<C_japan>>
  /\ threads["t2"].visited = <<C_france>>
  /\ IsProfile(users["u1"])
  /\ users["u1"].visited_countries = <<C_france>>
  /\ Len(users["u1"].travel_history) = 1
\* a divided by b, rounded up
Ceil(a, b) == (a + b - 1) \div b

\* C13: the chunking loop ends for every text: each pass moves start on by
\* 450, the loop makes ceil(len(text) / 450) passes and at most as many
\* chunks; an empty text gives no chunk, and the upload (on a server whose
\* embedding model is loaded) is answered 200 with chunks_added 0.
C13_LoopTerminates ==
  LET passes == Ceil(Len(chunker.text), 450)
  IN  /\ chunker.pc \in {"loop", "done"} =>
           /\ chunker.start = 450 * chunker.iterations
           /\ chunker.iterations <= passes
           /\ Len(chunker.chunks) <= chunker.iterations
           /\ chunker.iterations = passes <=>
                ~(chunker.start < Len(chunker.text))
      /\ chunker.pc = "done" =>
           /\ chunker.iterations = passes
           /\ chunker.text = <<>> =>
                /\ chunker.iterations = 0
                /\ chunker.chunks = <<>>
                /\ embedding_model =>
                     resp.status = 200 /\ resp.chunks_added = 0

\* an upload of 499 characters, the last 49 blank: two passes, one chunk
C13_Witness ==
  /\ chunker.pc = "done"
  /\ Len(chunker.text) = 499
  /\ chunker.iterations = 2
  /\ Len(chunker.chunks) = 1
  /\ resp.status = 200 /\ resp.chunks_added = 1

\* the offset in the chunked text of the non-blank character c
OffsetOf(c) == CHOOSE p \in 0..(Len(chunker.text) - 1) : chunker.text[p + 1] = c

\* C14: every chunk has between 1 and 500 characters and is a piece of the
\* text; the chunks are in the order of the text (a later chunk neither starts
\* nor ends before an earlier one); every non-blank character of the text is
\* in a chunk; an upload answered 200 has stored the chunks in that order with
\* chunk_id 0..n-1.
C14_ChunksCoverText ==
  LET n == Len(chunker.chunks)
      first == [j \in 1..n |-> OffsetOf(chunker.chunks[j][1])]
      last == [j \in 1..n |-> first[j] + Len(chunker.chunks[j]) - 1]
  IN  /\ \A j \in 1..n :
           /\ Len(chunker.chunks[j]) >= 1
           /\ Len(chunker.chunks[j]) <= 500
           /\ chunker.chunks[j] = SubSeq(chunker.text, first[j] + 1, last[j] + 1)
           /\ \A k \in (j + 1)..n : first[j] <= first[k] /\ last[j] <= last[k]
      /\ chunker.pc = "done" =>
           /\ \A i \in 1..Len(chunker.text) :
                chunker.text[i] \notin Whitespace =>
                  \E j \in 1..n : first[j] <= i - 1 /\ i - 1 <= last[j]
           /\ resp.status = 200 =>
                /\ documents = chunker.chunks
                /\ resp.chunks_added = n
                /\ Len(metadata) = n
                /\ \A i \in 1..n :
                     /\ metadata[i].chunk_id = i - 1
                     /\ metadata[i].source = chunker.filename

\* a text of three windows with no blank, stored as three chunks
C14_Witness ==
  /\ chunker.pc = "done"
  /\ resp.status = 200
  /\ Len(chunker.chunks) = 3
  /\ Len(chunker.chunks[1]) = 500
  /\ \A i \in 1..Len(chunker.text) : chunker.text[i] \notin Whitespace
  /\ Len(documents) = 3 /\ metadata[3].chunk_id = 2
\* C15: when save_to_disk fails in an upload, the upload is still answered
\* 200 with chunks_added the number of its chunks; the chunks are the last
\* entries of the in-memory lists, a search over the store returns each of
\* them for some query, and, when there is at least one, a VectorStore loaded
\* from the file differs from the store in memory.
C15_SaveFailureSwallowed ==
  (resp.ep = "upload" /\ lastSave \in {"open_failed", "write_failed"}) =>
    /\ resp.status = 200
    /\ Len(documents) = loadedAtStart + chunksAdded
    /\ resp.chunks_added <= Len(documents)
    /\ LET n == Len(documents)
           before == n - resp.chunks_added
       IN  /\ \E file \in Uploads :
                /\ Ingested[file].supported
                /\ Ingested[file].doc_type = resp.type
                /\ Ingested[file].chunks = SubSeq(documents, before + 1, n)
                /\ \A k \in (before + 1)..n :
                     /\ metadata[k].source = Ingested[file].filename
                     /\ metadata[k].chunk_id = k - before - 1
                     /\ embeddings[k] = Encode(documents[k])
           /\ ~SearchRaises(embeddings, embedding_model)
           /\ \A k \in (before + 1)..n :
                \E query \in SearchQueries :
                  LET found == SearchResults(documents, embeddings, metadata,
                                             query, n, None)
                  IN  \E j \in 1..Len(found) :
                        /\ found[j].text = documents[k]
                        /\ found[j].metadata = metadata[k]
           /\ resp.chunks_added > 0 =>
                LoadFromDisk(storeFile) # SaveData(documents, embeddings,
                                                   metadata)

\* an upload of at least one chunk answered 200 whose write was cut short
C15_Witness ==
  /\ resp.ep = "upload" /\ resp.status = 200
  /\ lastSave = "write_failed"
  /\ resp.chunks_added >= 1
  /\ storeFile = CorruptFile
  /\ Len(documents) >= 2
====
